---- MODULE Spec2Model ----
(***************************************************************************)
(* Dry-eye screening front end: the questionnaire view (Dashboard.tsx),    *)
(* story selection (Stories.tsx), the recording session view (Reading) and *)
(* the result view (Prediction.tsx).  Each React component is a            *)
(* state machine: its useState/useRef cells are the variables, every event *)
(* handler, promise continuation and timer callback is one action.         *)
(*                                                                         *)
(* Scores are kept in hundredths (score 12.5 is 1250), so that the two     *)
(* decimals produced by toFixed(2) are exact integers.                     *)
(***************************************************************************)
EXTENDS Integers, Sequences, FiniteSets, TLC

VARIABLES
    route,        \* the mounted view: "/dashboard", "/stories", "/reading", "/prediction"
    toasts,       \* notification channel: title -> number of toasts raised
    answers,      \* Dashboard: question id -> selected option value (a string)
    showScore,    \* Dashboard: useState(false)
    osdiScore,    \* Dashboard: useState(null), in hundredths
    loading,      \* Dashboard: useState(false)
    osdiInserts,  \* inserts issued to "osdi_scores": <<[status, score, answers]>>
    isRecording,  \* Reading: useState(false)
    recordedBlob, \* Reading: useState(null); <<>> is null, <<chunks>> a Blob
    timeLeft,     \* Reading: useState(300)
    hasStarted,   \* Reading: useState(false)
    videoSrc,     \* Reading: videoRef.current.srcObject, 0 is null
    mediaRecorderRef, \* Reading: useRef(null), 0 is null, else a recorder id
    chunksRef,    \* Reading: useRef([]), the chunk buffer
    timerRef,     \* Reading: useRef(null), 0 is null, else an interval id
    starts,       \* number of startRecording invocations so far
    acquiring,    \* invocations whose getUserMedia has not settled
    streams,      \* capture streams whose tracks are live
    recorders,    \* recorder id -> "none", "inactive", "recording", "stopping", "stopped"
    timers,       \* interval ids that are active
    numChunks,    \* number of non-empty chunks delivered so far
    stopClicks,   \* number of clicks on "Stop Recording"
    videoInserts, \* inserts issued to "video_recordings": <<[status, duration, blob]>>
    videoBlob,    \* location.state.videoBlob handed to "/prediction"
    recTicks,     \* history: interval callbacks run while the session was Recording
    uploadedFile, \* Prediction: useState(null), a file name or NoFile
    isAnalyzing,  \* Prediction: useState(false)
    result,       \* Prediction: useState(null); <<>> is null, <<[risk, confidence]>> a result
    analyses,     \* analyses started (setTimeout): <<[source, file, status]>>
    story         \* location.state.story of "/reading", a category id or NoStory

dashVars == <<answers, showScore, osdiScore, loading, osdiInserts>>
readState == <<isRecording, recordedBlob, timeLeft, hasStarted>>
readRefs == <<videoSrc, mediaRecorderRef, chunksRef, timerRef>>
readEnv == <<starts, acquiring, streams, recorders, timers, numChunks, stopClicks,
             videoInserts, videoBlob, recTicks>>
readVars == <<readState, readRefs, readEnv>>
predVars == <<uploadedFile, isAnalyzing, result, analyses>>
vars == <<route, toasts, story, dashVars, readVars, predVars>>
\* what the handlers of one view cannot touch
offDashboard == <<story, readVars, predVars>>
offReading == <<story, dashVars, predVars>>
offPrediction == <<story, dashVars, readVars>>
offStories == <<dashVars, readVars, predVars>>

----------------------------------------------------------------------------
(* Bounds *)

\* the user answers questions 1..MaxQuestion only (session specification)
MaxQuestion == 2
\* how often a handler that may be repeated without end raises its toast
MaxToasts == 2
\* clicks on "Start Recording" in one recording session
MaxStarts == 2
\* non-empty chunks the recorders deliver in one recording session
MaxChunks == 1
\* clicks on "Continue to Prediction" in one recording session
MaxContinues == 1
\* interval callbacks that move timeLeft while the session is not Recording,
\* and after "Continue to Prediction" was clicked (forwarding specification)
MaxLateTicks == 2

----------------------------------------------------------------------------
(* Program constants *)

NumQuestions == 7
osdiQuestions == 1..NumQuestions
options == {"0", "1", "2", "3", "4"}
NoScore == -1
TotalTime == 300
NoBlob == <<>>
Blob(chunks) == <<chunks>>

NoStory == "none"
\* the ids of the story categories
categories == {"funny", "kids", "ai", "classic"}
NoFile == "none"
NoResult == <<>>

\* the files the user can pick, and File.type of each, character by character
Files == {"clip.mp4", "reel.webm", "scan.png", "notes.bin", "cast.xvideo"}
fileType(f) ==
    CASE f = "clip.mp4" -> <<"v", "i", "d", "e", "o", "/", "m", "p", "4">>
      [] f = "reel.webm" -> <<"v", "i", "d", "e", "o", "/", "w", "e", "b", "m">>
      [] f = "scan.png" -> <<"i", "m", "a", "g", "e", "/", "p", "n", "g">>
      [] f = "notes.bin" -> <<>>
      [] f = "cast.xvideo" -> <<"x", "-", "v", "i", "d", "e", "o", "/", "x">>

ToastTitles == {"No Answers", "Score Saved", "Error",
                "Recording Started", "Camera Error", "Recording Stopped",
                "No Recording", "Invalid File", "No Video", "Analysis Complete"}

toast(title) == [toasts EXCEPT ![title] = @ + 1]

----------------------------------------------------------------------------
(* Pure functions of the questionnaire *)

\* mutant: the option values read as positions 1..5
parseInt_offByOne(val) ==
    CASE val = "0" -> 1
      [] val = "1" -> 2
      [] val = "2" -> 3
      [] val = "3" -> 4
      [] val = "4" -> 5

\* parseInt on the option values
parseInt(val) ==
    CASE val = "0" -> 0
      [] val = "1" -> 1
      [] val = "2" -> 2
      [] val = "3" -> 3
      [] val = "4" -> 4

\* Object.values(answers).reduce((acc, val) => acc + parseInt(val), 0)
RECURSIVE sumOver(_, _)
sumOver(a, keys) ==
    IF keys = {} THEN 0
    ELSE LET k == CHOOSE q \in keys : TRUE
         IN  parseInt(a[k]) + sumOver(a, keys \ {k})

sumAnswers(a) == sumOver(a, DOMAIN a)

\* Object.keys(answers).length
answeredCount(a) == Cardinality(DOMAIN a)

\* parseFloat((num / den).toFixed(2)), in hundredths: the nearest hundredth.
\* For den in 1..7 and num a multiple of 25 the quotient is never half way
\* between two hundredths, so the rounding direction of a tie is never used.
toFixed2(num, den) == (200 * num + den) \div (2 * den)

\* mutant: the mean taken over all questions instead of the answered ones
scoreOf_overAllQuestions(a) == toFixed2(sumAnswers(a) * 25, NumQuestions)

\* const score = (sum * 25) / answeredCount; parseFloat(score.toFixed(2))
scoreOf(a) == toFixed2(sumAnswers(a) * 25, answeredCount(a))

\* mutant: the last threshold one point low
severityLabel_lowThreshold(score) ==
    IF score < 1300 THEN "Normal"
    ELSE IF score < 2300 THEN "Mild Dry Eye"
    ELSE IF score < 3200 THEN "Moderate Dry Eye"
    ELSE "Severe Dry Eye"

\* the label rendered under the score
severityLabel(score) ==
    IF score < 1300 THEN "Normal"
    ELSE IF score < 2300 THEN "Mild Dry Eye"
    ELSE IF score < 3300 THEN "Moderate Dry Eye"
    ELSE "Severe Dry Eye"

----------------------------------------------------------------------------
(* Dashboard *)

DashboardMounted == route = "/dashboard"

\* mutant: the Calculate button stays after the score is shown
CalculateEnabled_alwaysShown == DashboardMounted /\ ~loading
\* the "Calculate OSDI Score" button is rendered and enabled
CalculateEnabled == DashboardMounted /\ ~showScore /\ ~loading
\* the "Continue to Story Selection" button is rendered
ContinueEnabled == DashboardMounted /\ showScore

handleAnswerChange(questionId, value) ==
    /\ DashboardMounted
    /\ answers' = [q \in DOMAIN answers \cup {questionId} |->
                      IF q = questionId THEN value ELSE answers[q]]
    /\ UNCHANGED <<route, toasts, showScore, osdiScore, loading, osdiInserts, offDashboard>>

\* mutant: the early return on an empty mapping is missing, the score is
\* computed (0 / 0, shown as no number) and saved
calculateScore_noReturn ==
    /\ CalculateEnabled
    /\ IF answeredCount(answers) = 0
       THEN /\ toasts["No Answers"] < MaxToasts
            /\ toasts' = toast("No Answers")
            /\ osdiScore' = NoScore
            /\ osdiInserts' = Append(osdiInserts,
                   [status |-> "pending", score |-> NoScore, answers |-> answers])
       ELSE /\ osdiScore' = scoreOf(answers)
            /\ osdiInserts' = Append(osdiInserts,
                   [status |-> "pending", score |-> scoreOf(answers),
                    answers |-> answers])
            /\ UNCHANGED toasts
    /\ showScore' = TRUE
    /\ loading' = TRUE
    /\ UNCHANGED <<route, answers, offDashboard>>

\* calculateScore up to its await
calculateScore ==
    /\ CalculateEnabled
    /\ IF answeredCount(answers) = 0
       THEN /\ toasts["No Answers"] < MaxToasts
            /\ toasts' = toast("No Answers")
            /\ UNCHANGED <<showScore, osdiScore, loading, osdiInserts>>
       ELSE /\ osdiScore' = scoreOf(answers)
            /\ showScore' = TRUE
            /\ loading' = TRUE
            /\ osdiInserts' = Append(osdiInserts,
                   [status |-> "pending", score |-> scoreOf(answers),
                    answers |-> answers])
            /\ UNCHANGED toasts
    /\ UNCHANGED <<route, answers, offDashboard>>

\* mutant: a failed insert rolls the displayed score back
insertSettled_rollback(i, ok) ==
    /\ i \in 1..Len(osdiInserts)
    /\ osdiInserts[i].status = "pending"
    /\ osdiInserts' = [osdiInserts EXCEPT ![i].status = IF ok THEN "ok" ELSE "error"]
    /\ toasts' = toast(IF ok THEN "Score Saved" ELSE "Error")
    /\ loading' = IF DashboardMounted THEN FALSE ELSE loading
    /\ showScore' = IF DashboardMounted /\ ~ok THEN FALSE ELSE showScore
    /\ osdiScore' = IF DashboardMounted /\ ~ok THEN NoScore ELSE osdiScore
    /\ UNCHANGED <<route, answers, offDashboard>>

\* mutant: the questionnaire continues straight to the recording view
dashboardContinue_skipsStories ==
    /\ ContinueEnabled
    /\ route' = "/reading"
    /\ UNCHANGED <<toasts, dashVars, offDashboard>>

\* the continuation of calculateScore after the insert i settled.  After the
\* view is left the state setters have no effect; the toast channel is global.
insertSettled(i, ok) ==
    /\ i \in 1..Len(osdiInserts)
    /\ osdiInserts[i].status = "pending"
    /\ osdiInserts' = [osdiInserts EXCEPT ![i].status = IF ok THEN "ok" ELSE "error"]
    /\ toasts' = toast(IF ok THEN "Score Saved" ELSE "Error")
    /\ loading' = IF DashboardMounted THEN FALSE ELSE loading
    /\ UNCHANGED <<route, answers, showScore, osdiScore, offDashboard>>

dashboardContinue ==
    /\ ContinueEnabled
    /\ route' = "/stories"
    /\ UNCHANGED <<toasts, dashVars, offDashboard>>

----------------------------------------------------------------------------
(* Reading: the recording session *)

ReadingMounted == route = "/reading"

\* the session states of the view
Idle == ~hasStarted /\ ~isRecording
Recording == isRecording
Stopped == hasStarted /\ ~isRecording

\* the "Start Recording" button is rendered
StartAvailable == ReadingMounted /\ ~hasStarted
\* the "Stop Recording" button is rendered
StopAvailable == ReadingMounted /\ isRecording
\* the "Continue to Prediction" button is rendered
ContinueAvailable == ReadingMounted /\ recordedBlob # NoBlob

\* mediaRecorderRef.current && mediaRecorderRef.current.state === "recording"
RecorderRecording ==
    mediaRecorderRef # 0 /\ recorders[mediaRecorderRef] = "recording"

\* a state setter acts on a mounted component only
setState(old, new) == IF ReadingMounted THEN new ELSE old

\* startRecording up to its await: getUserMedia is called
startRecording ==
    /\ StartAvailable
    /\ starts < MaxStarts
    /\ starts' = starts + 1
    /\ acquiring' = acquiring \cup {starts + 1}
    /\ UNCHANGED <<route, toasts, offReading, recTicks, readState, readRefs, streams,
                   recorders, timers, numChunks, stopClicks, videoInserts, videoBlob>>

\* mutant: hasStarted is set although the acquisition failed
acquireFailed_marksStarted(i) ==
    /\ i \in acquiring
    /\ acquiring' = acquiring \ {i}
    /\ toasts' = toast("Camera Error")
    /\ hasStarted' = setState(hasStarted, TRUE)
    /\ UNCHANGED <<route, offReading, recTicks, isRecording, recordedBlob, timeLeft, readRefs,
                   starts, streams, recorders, timers, numChunks, stopClicks,
                   videoInserts, videoBlob>>

\* getUserMedia rejected: the catch block
acquireFailed(i) ==
    /\ i \in acquiring
    /\ acquiring' = acquiring \ {i}
    /\ toasts' = toast("Camera Error")
    /\ UNCHANGED <<route, offReading, recTicks, readState, readRefs, starts, streams,
                   recorders, timers, numChunks, stopClicks, videoInserts, videoBlob>>

\* getUserMedia resolved with stream i: the rest of startRecording.  outcome
\* says whether the MediaRecorder constructor or start(1000) throws.
acquired(i, outcome) ==
    /\ i \in acquiring
    /\ acquiring' = acquiring \ {i}
    /\ streams' = streams \cup {i}
    /\ videoSrc' = setState(videoSrc, i)
    /\ IF outcome = "constructorThrows"
       THEN /\ toasts' = toast("Camera Error")
            /\ UNCHANGED <<readState, mediaRecorderRef, chunksRef, timerRef,
                           recorders, timers>>
       ELSE /\ chunksRef' = <<>>
            /\ IF outcome = "startThrows"
               THEN /\ recorders' = [recorders EXCEPT ![i] = "inactive"]
                    /\ toasts' = toast("Camera Error")
                    /\ UNCHANGED <<readState, mediaRecorderRef, timerRef, timers>>
               ELSE /\ recorders' = [recorders EXCEPT ![i] = "recording"]
                    /\ mediaRecorderRef' = i
                    /\ isRecording' = setState(isRecording, TRUE)
                    /\ hasStarted' = setState(hasStarted, TRUE)
                    /\ timerRef' = i
                    /\ timers' = timers \cup {i}
                    /\ toasts' = toast("Recording Started")
                    /\ UNCHANGED <<recordedBlob, timeLeft>>
    /\ UNCHANGED <<route, offReading, recTicks, starts, numChunks, stopClicks, videoInserts,
                   videoBlob>>

\* mediaRecorder.ondataavailable for a time slice of recorder r
dataAvailable(r, size) ==
    /\ r \in 1..MaxStarts
    /\ recorders[r] = "recording"
    /\ IF size > 0
       THEN /\ numChunks < MaxChunks
            /\ numChunks' = numChunks + 1
            /\ chunksRef' = Append(chunksRef, <<r, numChunks + 1>>)
       ELSE UNCHANGED <<numChunks, chunksRef>>
    /\ UNCHANGED <<route, toasts, offReading, recTicks, readState, videoSrc, mediaRecorderRef,
                   timerRef, starts, acquiring, streams, recorders, timers,
                   stopClicks, videoInserts, videoBlob>>

\* mutant: the recorder's state is not tested, only its presence
stopRecording_noStateTest ==
    IF mediaRecorderRef # 0
    THEN /\ recorders' = [recorders EXCEPT ![mediaRecorderRef] =
                             IF @ = "recording" THEN "stopping" ELSE @]
         /\ isRecording' = setState(isRecording, FALSE)
         /\ timers' = timers \ {timerRef}
         /\ toasts' = toast("Recording Stopped")
    ELSE UNCHANGED <<recorders, isRecording, timers, toasts>>

\* the body of stopRecording: what it does to the recorder, isRecording, the
\* interval and the toasts
stopRecording ==
    IF RecorderRecording
    THEN /\ recorders' = [recorders EXCEPT ![mediaRecorderRef] = "stopping"]
         /\ isRecording' = setState(isRecording, FALSE)
         /\ timers' = timers \ {timerRef}
         /\ toasts' = toast("Recording Stopped")
    ELSE UNCHANGED <<recorders, isRecording, timers, toasts>>

\* a click on "Stop Recording"
stopRecordingClick ==
    /\ StopAvailable
    /\ stopRecording
    /\ stopClicks' = stopClicks + 1
    /\ UNCHANGED <<route, offReading, recTicks, recordedBlob, timeLeft, hasStarted, readRefs,
                   starts, acquiring, streams, numChunks, videoInserts, videoBlob>>

\* mutant: the countdown stops at zero without stopping the recording
timerTick_noAutoStop(t, runs) ==
    /\ t \in timers
    /\ IF ReadingMounted
       THEN /\ runs
            /\ timeLeft' = IF timeLeft <= 1 THEN 0 ELSE timeLeft - 1
       ELSE timeLeft' = timeLeft
    /\ UNCHANGED <<recorders, isRecording, timers, toasts>>
    /\ UNCHANGED <<route, offReading, recordedBlob, hasStarted, readRefs, starts,
                   acquiring, streams, numChunks, stopClicks, videoInserts, videoBlob>>

\* the interval callback of timer t: setTimeLeft(prev => ...).  On a view
\* that was left the new value is dropped, and the updater may or may not
\* be run.
timerTick(t, runs) ==
    /\ t \in timers
    /\ IF ReadingMounted
       THEN /\ runs
            /\ IF timeLeft <= 1
               THEN stopRecording /\ timeLeft' = 0
               ELSE /\ timeLeft' = timeLeft - 1
                    /\ UNCHANGED <<recorders, isRecording, timers, toasts>>
       ELSE /\ timeLeft' = timeLeft
            /\ IF runs /\ timeLeft <= 1
               THEN stopRecording
               ELSE UNCHANGED <<recorders, isRecording, timers, toasts>>
    /\ UNCHANGED <<route, offReading, recordedBlob, hasStarted, readRefs, starts,
                   acquiring, streams, numChunks, stopClicks, videoInserts, videoBlob>>

\* the task queued by stop() on recorder r: the last dataavailable event,
\* then mediaRecorder.onstop
recorderStopped(r, size) ==
    /\ r \in 1..MaxStarts
    /\ recorders[r] = "stopping"
    /\ size > 0 => numChunks < MaxChunks
    /\ LET chunks == IF size > 0 THEN Append(chunksRef, <<r, numChunks + 1>>)
                     ELSE chunksRef
       IN  /\ chunksRef' = chunks
           /\ numChunks' = IF size > 0 THEN numChunks + 1 ELSE numChunks
           /\ recordedBlob' = setState(recordedBlob, Blob(chunks))
    /\ streams' = streams \ {r}
    /\ videoSrc' = setState(videoSrc, 0)
    /\ recorders' = [recorders EXCEPT ![r] = "stopped"]
    /\ UNCHANGED <<route, toasts, offReading, recTicks, isRecording, timeLeft, hasStarted,
                   mediaRecorderRef, timerRef, starts, acquiring, timers,
                   stopClicks, videoInserts, videoBlob>>

\* the unmount cleanup effect, as the values it leaves
timersAfterCleanup == IF timerRef # 0 THEN timers \ {timerRef} ELSE timers
recordersAfterCleanup ==
    IF RecorderRecording
    THEN [recorders EXCEPT ![mediaRecorderRef] = "stopping"]
    ELSE recorders

\* the view is left by the browser's own navigation (back, reload, address
\* bar): the cleanup effect runs
leaveReading ==
    /\ ReadingMounted
    /\ route' = "/stories"
    /\ timers' = timersAfterCleanup
    /\ recorders' = recordersAfterCleanup
    /\ UNCHANGED <<toasts, offReading, recTicks, readState, readRefs, starts, acquiring,
                   streams, numChunks, stopClicks, videoInserts, videoBlob>>

\* handleContinue up to its await
readingContinue ==
    /\ ContinueAvailable
    /\ Len(videoInserts) < MaxContinues
    /\ IF recordedBlob = NoBlob
       THEN /\ toasts' = toast("No Recording")
            /\ UNCHANGED videoInserts
       ELSE /\ videoInserts' = Append(videoInserts,
                   [status |-> "pending", duration |-> TotalTime - timeLeft,
                    blob |-> recordedBlob])
            /\ UNCHANGED toasts
    /\ UNCHANGED <<route, offReading, recTicks, readState, readRefs, starts, acquiring,
                   streams, recorders, timers, numChunks, stopClicks, videoBlob>>

\* mutant: the view navigates whether or not the insert succeeded
videoInsertSettled_navigatesAlways(i, ok) ==
    /\ i \in 1..Len(videoInserts)
    /\ videoInserts[i].status = "pending"
    /\ videoInserts' = [videoInserts EXCEPT ![i].status = IF ok THEN "ok" ELSE "error"]
    /\ route' = "/prediction"
    /\ videoBlob' = videoInserts[i].blob
    /\ timers' = IF ReadingMounted THEN timersAfterCleanup ELSE timers
    /\ recorders' = IF ReadingMounted THEN recordersAfterCleanup ELSE recorders
    /\ toasts' = IF ok THEN toasts ELSE toast("Error")
    /\ UNCHANGED <<offReading, recTicks, readState, readRefs, starts, acquiring, streams,
                   numChunks, stopClicks>>

\* the continuation of handleContinue after the insert i settled
videoInsertSettled(i, ok) ==
    /\ i \in 1..Len(videoInserts)
    /\ videoInserts[i].status = "pending"
    /\ videoInserts' = [videoInserts EXCEPT ![i].status = IF ok THEN "ok" ELSE "error"]
    /\ IF ok
       THEN /\ route' = "/prediction"
            /\ videoBlob' = videoInserts[i].blob
            /\ timers' = IF ReadingMounted THEN timersAfterCleanup ELSE timers
            /\ recorders' = IF ReadingMounted THEN recordersAfterCleanup ELSE recorders
            /\ UNCHANGED toasts
       ELSE /\ toasts' = toast("Error")
            /\ UNCHANGED <<route, videoBlob, timers, recorders>>
    /\ UNCHANGED <<offReading, recTicks, readState, readRefs, starts, acquiring, streams,
                   numChunks, stopClicks>>

----------------------------------------------------------------------------
(* Stories: story selection, and the redirect of Reading *)

StoriesMounted == route = "/stories"

\* handleSelectCategory: navigate("/reading", { state: { categoryId, story } })
handleSelectCategory(categoryId) ==
    /\ StoriesMounted
    /\ route' = "/reading"
    /\ story' = categoryId
    /\ UNCHANGED <<toasts, offStories>>

\* the effect of Reading that runs after it mounted without a story
readingRedirect ==
    /\ ReadingMounted
    /\ story = NoStory
    /\ route' = "/stories"
    /\ UNCHANGED <<toasts, offReading, readVars>>

----------------------------------------------------------------------------
(* Prediction: the result view *)

PredictionMounted == route = "/prediction"

\* String.prototype.startsWith
startsWith(str, prefix) ==
    Len(str) >= Len(prefix) /\ SubSeq(str, 1, Len(prefix)) = prefix

\* the upload card (file input, analyze button) is rendered while !result
UploadAvailable == PredictionMounted /\ result = NoResult
\* mutant: the button is disabled only while an analysis runs
AnalyzeEnabled_onlyBusy ==
    /\ UploadAvailable
    /\ ~isAnalyzing
\* the "Test Dry Eye Risk" button is rendered and not disabled
AnalyzeEnabled ==
    /\ UploadAvailable
    /\ ~(isAnalyzing \/ (uploadedFile = NoFile /\ videoBlob = NoBlob))
\* the "Return to Dashboard" button is rendered
ReturnAvailable == PredictionMounted /\ result # NoResult

\* uploadedFile || (videoBlob ? new File([videoBlob], "recording.webm") : null)
fileToAnalyze ==
    IF uploadedFile # NoFile THEN [source |-> "upload", file |-> uploadedFile]
    ELSE IF videoBlob # NoBlob THEN [source |-> "recording", file |-> "recording.webm"]
    ELSE [source |-> "none", file |-> NoFile]

\* mutant: a file of another type is stored after the toast (no return)
handleFileUpload_noReturn(f) ==
    /\ UploadAvailable
    /\ IF f # NoFile
       THEN /\ IF ~startsWith(fileType(f), <<"v", "i", "d", "e", "o", "/">>)
               THEN /\ toasts["Invalid File"] < MaxToasts
                    /\ toasts' = toast("Invalid File")
               ELSE UNCHANGED toasts
            /\ uploadedFile' = f
       ELSE UNCHANGED <<toasts, uploadedFile>>
    /\ UNCHANGED <<route, offPrediction, isAnalyzing, result, analyses>>

\* handleFileUpload; f = NoFile is a file dialog closed without a file
handleFileUpload(f) ==
    /\ UploadAvailable
    /\ IF f # NoFile
       THEN IF ~startsWith(fileType(f), <<"v", "i", "d", "e", "o", "/">>)
            THEN /\ toasts["Invalid File"] < MaxToasts
                 /\ toasts' = toast("Invalid File")
                 /\ UNCHANGED uploadedFile
            ELSE /\ uploadedFile' = f
                 /\ UNCHANGED toasts
       ELSE UNCHANGED <<toasts, uploadedFile>>
    /\ UNCHANGED <<route, offPrediction, isAnalyzing, result, analyses>>

\* analyzeVideo: the handler up to setTimeout
analyzeVideo ==
    /\ IF fileToAnalyze.source = "none"
       THEN /\ toasts["No Video"] < MaxToasts
            /\ toasts' = toast("No Video")
            /\ UNCHANGED <<isAnalyzing, analyses>>
       ELSE /\ isAnalyzing' = TRUE
            /\ analyses' = Append(analyses,
                   [source |-> fileToAnalyze.source, file |-> fileToAnalyze.file,
                    status |-> "pending"])
            /\ UNCHANGED toasts
    /\ UNCHANGED <<route, offPrediction, uploadedFile, result>>

\* the setTimeout callback of analysis i, with the mock's random draws
analysisDone(i, risk, confidence) ==
    /\ i \in 1..Len(analyses)
    /\ analyses[i].status = "pending"
    /\ analyses' = [analyses EXCEPT ![i].status = "done"]
    /\ result' = IF PredictionMounted
                 THEN <<[risk |-> risk, confidence |-> confidence]>>
                 ELSE result
    /\ isAnalyzing' = IF PredictionMounted THEN FALSE ELSE isAnalyzing
    /\ toasts' = toast("Analysis Complete")
    /\ UNCHANGED <<route, offPrediction, uploadedFile>>

\* a click on "Return to Dashboard"
returnToDashboard ==
    /\ ReturnAvailable
    /\ route' = "/dashboard"
    /\ UNCHANGED <<toasts, offPrediction, predVars>>

\* the view is left by the browser's own navigation (back)
leavePrediction ==
    /\ PredictionMounted
    /\ route' = "/reading"
    /\ UNCHANGED <<toasts, offPrediction, predVars>>

----------------------------------------------------------------------------
(* Specifications *)

NoToasts == [t \in ToastTitles |-> 0]

DashboardFresh ==
    /\ answers = <<>>
    /\ showScore = FALSE
    /\ osdiScore = NoScore
    /\ loading = FALSE
    /\ osdiInserts = <<>>

PredictionFresh ==
    /\ uploadedFile = NoFile
    /\ isAnalyzing = FALSE
    /\ result = NoResult
    /\ analyses = <<>>

ReadingFresh ==
    /\ isRecording = FALSE
    /\ recordedBlob = NoBlob
    /\ timeLeft = TotalTime
    /\ hasStarted = FALSE
    /\ videoSrc = 0
    /\ mediaRecorderRef = 0
    /\ chunksRef = <<>>
    /\ timerRef = 0
    /\ starts = 0
    /\ acquiring = {}
    /\ streams = {}
    /\ recorders = [r \in 1..MaxStarts |-> "none"]
    /\ timers = {}
    /\ numChunks = 0
    /\ stopClicks = 0
    /\ videoInserts = <<>>
    /\ videoBlob = NoBlob
    /\ recTicks = 0

AnswerMaps(Q) == UNION {[D -> options] : D \in SUBSET Q}

InitDashboard ==
    /\ route = "/dashboard"
    /\ toasts = NoToasts
    /\ story = NoStory
    /\ DashboardFresh
    /\ ReadingFresh
    /\ PredictionFresh

NextDashboard ==
    \/ \E q \in 1..MaxQuestion, v \in options : handleAnswerChange(q, v)
    \/ calculateScore
    \/ \E i \in 1..Len(osdiInserts), ok \in BOOLEAN : insertSettled(i, ok)
    \/ dashboardContinue

SpecDashboard == InitDashboard /\ [][NextDashboard]_vars

\* the scoring function on every answer mapping over the seven questions
InitScore ==
    /\ route = "/dashboard"
    /\ toasts = NoToasts
    /\ story = NoStory
    /\ answers \in AnswerMaps(osdiQuestions)
    /\ showScore = FALSE
    /\ osdiScore = NoScore
    /\ loading = FALSE
    /\ osdiInserts = <<>>
    /\ ReadingFresh
    /\ PredictionFresh

NextScore == calculateScore

SpecScore == InitScore /\ [][NextScore]_vars

InitReading ==
    /\ route = "/reading"
    /\ toasts = NoToasts
    /\ story = "funny"
    /\ DashboardFresh
    /\ ReadingFresh
    /\ PredictionFresh

NextReading ==
    \/ startRecording
    \/ \E i \in acquiring : acquireFailed(i)
    \/ \E i \in acquiring, outcome \in {"ok", "constructorThrows", "startThrows"} :
          acquired(i, outcome)
    \/ \E r \in 1..MaxStarts, size \in {0, 1} : dataAvailable(r, size)
    \/ stopRecordingClick
    \/ \E t \in timers, runs \in BOOLEAN : timerTick(t, runs) /\ UNCHANGED recTicks
    \/ \E r \in 1..MaxStarts, size \in {0, 1} : recorderStopped(r, size)
    \/ leaveReading

\* The recording session, without the tick history.  handleContinue reads the session (the artifact,
\* timeLeft) and writes none of its cells; the navigation it ends with tears
\* the view down exactly as leaveReading does, which is enabled in every
\* state, so the session is specified without it.
SpecReading == InitReading /\ [][NextReading]_vars


\* the callbacks the event loop runs once they are due: an interval callback,
\* and the task a recorder queued when it was stopped
Ticks == \E t \in timers, runs \in BOOLEAN : timerTick(t, runs) /\ UNCHANGED recTicks
RecorderTasks == \E r \in 1..MaxStarts, size \in {0, 1} : recorderStopped(r, size)

NextLive ==
    \/ startRecording
    \/ \E i \in acquiring : acquireFailed(i)
    \/ \E i \in acquiring, outcome \in {"ok", "constructorThrows", "startThrows"} :
          acquired(i, outcome)
    \/ stopRecordingClick
    \/ Ticks
    \/ RecorderTasks
    \/ leaveReading

\* The recording session under fair scheduling of the countdown and of the
\* recorder callbacks.  The chunks a recorder delivers while it records
\* (dataAvailable) end up in the artifact only; the artifact here is made of
\* the last chunk of each recorder.
SpecLive == InitReading /\ [][NextLive]_vars /\ WF_vars(Ticks) /\ WF_vars(RecorderTasks)

\* the interval callback with the tick history: a callback run while the
\* mounted session is Recording is counted
countedTick(t, runs) ==
    /\ (ReadingMounted /\ ~isRecording /\ timeLeft > 0) =>
          (TotalTime - timeLeft) - recTicks < MaxLateTicks
    /\ (ReadingMounted /\ videoInserts # <<>> /\ timeLeft > 0) =>
          (TotalTime - timeLeft) - videoInserts[1].duration < MaxLateTicks
    /\ timerTick(t, runs)
    /\ recTicks' = IF ReadingMounted /\ isRecording THEN recTicks + 1 ELSE recTicks

NextForward ==
    \/ startRecording
    \/ \E i \in acquiring : acquireFailed(i)
    \/ \E i \in acquiring, outcome \in {"ok", "constructorThrows", "startThrows"} :
          acquired(i, outcome)
    \/ \E r \in 1..MaxStarts, size \in {0, 1} : dataAvailable(r, size)
    \/ stopRecordingClick
    \/ \E t \in timers, runs \in BOOLEAN : countedTick(t, runs)
    \/ \E r \in 1..MaxStarts, size \in {0, 1} : recorderStopped(r, size)
    \/ leaveReading
    \/ readingContinue
    \/ \E i \in 1..Len(videoInserts), ok \in BOOLEAN : videoInsertSettled(i, ok)

\* The recording session with the forwarding step (handleContinue) and the
\* tick history.
SpecForward == InitReading /\ [][NextForward]_vars


\* The recording session with the forwarding step, for a user who clicks
\* "Start Recording" again only after the previous camera request settled.
NextContinue ==
    \/ acquiring = {} /\ startRecording
    \/ \E i \in acquiring : acquireFailed(i)
    \/ \E i \in acquiring, outcome \in {"ok", "constructorThrows", "startThrows"} :
          acquired(i, outcome)
    \/ \E r \in 1..MaxStarts, size \in {0, 1} : dataAvailable(r, size)
    \/ stopRecordingClick
    \/ \E t \in timers, runs \in BOOLEAN : countedTick(t, runs)
    \/ \E r \in 1..MaxStarts, size \in {0, 1} : recorderStopped(r, size)
    \/ leaveReading
    \/ readingContinue
    \/ \E i \in 1..Len(videoInserts), ok \in BOOLEAN : videoInsertSettled(i, ok)

SpecContinue == InitReading /\ [][NextContinue]_vars

\* the mock's draws: the three tiers, and confidences 0.75 + random * 0.2 in
\* thousandths (the ends and the middle of the range)
Risks == {"low", "medium", "high"}
Confidences == {750, 850, 949}

\* what Reading can hand over in location.state: nothing (the view opened by
\* its address), an artifact without chunks, an artifact with one chunk
CarriedBlobs == {NoBlob, Blob(<<>>), Blob(<<<<1, 1>>>>)}

InitPrediction ==
    /\ route = "/prediction"
    /\ toasts = NoToasts
    /\ story = NoStory
    /\ DashboardFresh
    /\ isRecording = FALSE
    /\ recordedBlob = NoBlob
    /\ timeLeft = TotalTime
    /\ hasStarted = FALSE
    /\ videoSrc = 0
    /\ mediaRecorderRef = 0
    /\ chunksRef = <<>>
    /\ timerRef = 0
    /\ starts = 0
    /\ acquiring = {}
    /\ streams = {}
    /\ recorders = [r \in 1..MaxStarts |-> "none"]
    /\ timers = {}
    /\ numChunks = 0
    /\ stopClicks = 0
    /\ videoInserts = <<>>
    /\ videoBlob \in CarriedBlobs
    /\ recTicks = 0
    /\ PredictionFresh

NextPrediction ==
    \/ \E f \in Files \cup {NoFile} : handleFileUpload(f)
    \/ AnalyzeEnabled /\ analyzeVideo
    \/ \E i \in 1..Len(analyses), risk \in Risks, confidence \in Confidences :
          analysisDone(i, risk, confidence)
    \/ returnToDashboard
    \/ leavePrediction

SpecPrediction == InitPrediction /\ [][NextPrediction]_vars


\* one screening session ends with the return to the questionnaire: the
\* Dashboard it mounts is a new instance, the start of the next session
SessionOver == route = "/dashboard" /\ result # NoResult

\* the app is opened at the address of any of the four views, without
\* location.state
InitNav ==
    /\ route \in {"/dashboard", "/stories", "/reading", "/prediction"}
    /\ toasts = NoToasts
    /\ story = NoStory
    /\ DashboardFresh
    /\ ReadingFresh
    /\ PredictionFresh

NextNav ==
    /\ ~SessionOver
    /\ \/ \E v \in {"0", "4"} : handleAnswerChange(1, v)
       \/ calculateScore
       \/ \E i \in 1..Len(osdiInserts), ok \in BOOLEAN : insertSettled(i, ok)
       \/ dashboardContinue
       \/ \E c \in categories : handleSelectCategory(c)
       \/ readingRedirect
       \/ story # NoStory /\ acquiring = {} /\ startRecording
       \/ \E i \in acquiring : acquired(i, "ok")
       \/ story # NoStory /\ stopRecordingClick
       \/ \E r \in 1..MaxStarts, size \in {0, 1} : recorderStopped(r, size)
       \/ story # NoStory /\ readingContinue
       \/ \E i \in 1..Len(videoInserts), ok \in BOOLEAN : videoInsertSettled(i, ok)
       \/ \E f \in {"clip.mp4", "scan.png", NoFile} : handleFileUpload(f)
       \/ AnalyzeEnabled /\ analyzeVideo
       \/ \E i \in 1..Len(analyses), risk \in Risks, confidence \in Confidences :
             analysisDone(i, risk, confidence)
       \/ returnToDashboard

\* One screening session through the views, with every handler that calls
\* navigate.  The session takes the path on which the camera is granted and
\* the recording is ended by "Stop Recording"; the countdown and the browser's
\* own navigation call navigate nowhere and are specified in SpecForward.
SpecNav == InitNav /\ [][NextNav]_vars


----------------------------------------------------------------------------
(* Questionnaire claims *)

\* number of answers with ordinal k, and the sum of the ordinals, counted
\* option by option
ordinalCount(a, v) == Cardinality({q \in DOMAIN a : a[q] = v})
ordinalSum(a) == ordinalCount(a, "1") + 2 * ordinalCount(a, "2")
                 + 3 * ordinalCount(a, "3") + 4 * ordinalCount(a, "4")
Abs(x) == IF x < 0 THEN -x ELSE x

\* C1: whenever calculateScore shows a score for a non-empty answer mapping,
\* the score is (sum of ordinals * 25) / (number of answered questions)
\* rounded to two decimals (no hundredth is nearer to the quotient), and it
\* lies in [0, 100].
C1_ScoreIsRoundedMean ==
    [][(~showScore /\ showScore') =>
          /\ answeredCount(answers) > 0
          /\ 2 * Abs(answeredCount(answers) * osdiScore' - 2500 * ordinalSum(answers))
                <= answeredCount(answers)
          /\ osdiScore' >= 0
          /\ osdiScore' <= 10000]_vars

\* one answer "1" among seven answered questions: 25 / 7 = 3.5714..., shown as 3.57
C1_Witness ==
    /\ showScore
    /\ answeredCount(answers) = 7
    /\ ordinalSum(answers) = 1
    /\ osdiScore = 357

\* C2: calculateScore on an empty answer mapping (the only step that leaves
\* an empty mapping empty) sets and shows no score, issues no insert, raises
\* exactly one "No Answers" toast and changes nothing else.
C2_EmptyRejected ==
    [][(answeredCount(answers) = 0 /\ answers' = answers) =>
          /\ toasts' = toast("No Answers")
          /\ showScore' = FALSE
          /\ osdiScore' = NoScore
          /\ loading' = FALSE
          /\ osdiInserts' = <<>>
          /\ route' = route]_vars

C2_Witness ==
    /\ answeredCount(answers) = 0
    /\ toasts["No Answers"] > 0
    /\ ~showScore
    /\ osdiInserts = <<>>

\* the tiers as the claim words them, with closed whole-number ranges
tiersOfClaim(score) ==
    (IF score < 1300 THEN {"Normal"} ELSE {})
    \cup (IF score >= 1300 /\ score <= 2200 THEN {"Mild Dry Eye"} ELSE {})
    \cup (IF score >= 2300 /\ score <= 3200 THEN {"Moderate Dry Eye"} ELSE {})
    \cup (IF score >= 3300 THEN {"Severe Dry Eye"} ELSE {})

\* C3 as stated: every shown score lies in exactly one of the ranges
\* below 13, 13-22, 23-32, 33 or above, and carries that range's label.
C3_Original ==
    showScore => tiersOfClaim(osdiScore) = {severityLabel(osdiScore)}

\* the tiers with half-open ranges
tiersHalfOpen(score) ==
    (IF score < 1300 THEN {"Normal"} ELSE {})
    \cup (IF score >= 1300 /\ score < 2300 THEN {"Mild Dry Eye"} ELSE {})
    \cup (IF score >= 2300 /\ score < 3300 THEN {"Moderate Dry Eye"} ELSE {})
    \cup (IF score >= 3300 THEN {"Severe Dry Eye"} ELSE {})

\* C3 amended: every shown score is mapped to exactly one tier: below 13
\* Normal, from 13 to below 23 Mild, from 23 to below 33 Moderate, 33 or
\* above Severe.
C3_TierPartition ==
    showScore => tiersHalfOpen(osdiScore) = {severityLabel(osdiScore)}

\* nine points over seven answers: 32.14, between the ranges 23-32 and 33+
C3_Witness ==
    /\ showScore
    /\ osdiScore = 3214
    /\ severityLabel(osdiScore) = "Moderate Dry Eye"

allFour == [q \in osdiQuestions |-> "4"]
onlyFirstZero == [q \in {1} |-> "0"]
firstTwoTwo == [q \in {1, 2} |-> "2"]

\* C4 as stated: all seven "4" give 100.00 "Severe Dry Eye", question 1 "0"
\* alone gives 0.00 "Normal", questions 1 and 2 "2" give 50.00 "Moderate
\* Dry Eye".
C4_Original ==
    [][(~showScore /\ showScore') =>
          /\ answers = allFour =>
                osdiScore' = 10000 /\ severityLabel(osdiScore') = "Severe Dry Eye"
          /\ answers = onlyFirstZero =>
                osdiScore' = 0 /\ severityLabel(osdiScore') = "Normal"
          /\ answers = firstTwoTwo =>
                osdiScore' = 5000 /\ severityLabel(osdiScore') = "Moderate Dry Eye"]_vars

\* C4 amended: as stated, except that questions 1 and 2 answered "2" give
\* 50.00 labelled "Severe Dry Eye".
C4_Examples ==
    [][(~showScore /\ showScore') =>
          /\ answers = allFour =>
                osdiScore' = 10000 /\ severityLabel(osdiScore') = "Severe Dry Eye"
          /\ answers = onlyFirstZero =>
                osdiScore' = 0 /\ severityLabel(osdiScore') = "Normal"
          /\ answers = firstTwoTwo =>
                osdiScore' = 5000 /\ severityLabel(osdiScore') = "Severe Dry Eye"]_vars

C4_Witness ==
    /\ showScore
    /\ answers = firstTwoTwo
    /\ osdiScore = 5000

\* C5: once an insert was issued, whatever its outcome (pending, saved,
\* failed), the mounted questionnaire shows the score that was computed and
\* offers the continue action.
C5_ScoreStaysShown ==
    (osdiInserts # <<>> /\ DashboardMounted) =>
        /\ showScore
        /\ ContinueEnabled
        /\ osdiScore # NoScore
        /\ osdiScore = osdiInserts[1].score

\* a failed insert: the error toast was raised, the score is still shown
C5_Witness ==
    /\ DashboardMounted
    /\ osdiInserts # <<>>
    /\ osdiInserts[1].status = "error"
    /\ toasts["Error"] = 1
    /\ showScore
    /\ ~loading

----------------------------------------------------------------------------
(* Recording session claims *)

\* recorders on which stop() was called
StoppedRecorders == {r \in 1..MaxStarts : recorders[r] \in {"stopping", "stopped"}}

\* C6 as stated: in a mounted view the session only moves Idle -> Recording
\* -> Stopped: Recording is entered from Idle only, Stopped from Recording
\* only, and a Stopped session stays Stopped.
C6_Original ==
    [][(ReadingMounted /\ ReadingMounted') =>
          /\ (Recording' /\ ~Recording) => Idle
          /\ (Stopped' /\ ~Stopped) => Recording
          /\ Stopped => Stopped']_vars

\* C7 as stated: as long as "Stop Recording" was never clicked in a mounted
\* view, the countdown starts at 300, every change of timeLeft is a decrease
\* by one, and a Recording -> Stopped transition leaves timeLeft at 0 and is
\* the only one: stop() was called on one recorder and never more than one
\* recorder is stopped.
C7_Original ==
    [][(stopClicks' = 0 /\ ReadingMounted /\ ReadingMounted') =>
          /\ Idle => timeLeft = TotalTime
          /\ timeLeft' # timeLeft => timeLeft' = timeLeft - 1
          /\ (isRecording /\ ~isRecording') =>
                timeLeft' = 0 /\ Cardinality(StoppedRecorders') = 1
          /\ Cardinality(StoppedRecorders') <= 1]_vars

\* a step that calls stopRecording from the interval callback
StopCalledByTick == timeLeft <= 1 /\ \E t \in timers : timerTick(t, TRUE)

\* C8: a step that calls stopRecording (the button or the interval callback
\* at prev <= 1) while the current recorder is absent or not recording stops
\* no recorder, leaves isRecording, hasStarted, the artifact, the interval,
\* the streams and the chunk buffer as they are and raises no toast;
\* timeLeft is only set by the callback's own "return 0".
C8_StopIdempotent ==
    [][((stopRecordingClick \/ StopCalledByTick) /\ ~RecorderRecording) =>
          /\ UNCHANGED <<recorders, isRecording, hasStarted, recordedBlob, toasts,
                         timers, streams, readRefs, numChunks>>
          /\ timeLeft' = timeLeft \/ (timeLeft = 1 /\ timeLeft' = 0)]_vars

\* an interval left over from an earlier start ran down to 0 after the one
\* effective stop (the click): its stopRecording call found the recorder
\* already stopped
C8_Witness ==
    /\ ReadingMounted
    /\ stopClicks = 1
    /\ toasts["Recording Stopped"] = 1
    /\ timeLeft = 0
    /\ timers # {}
    /\ ~isRecording
    /\ ~RecorderRecording

\* C9: a step in which a camera acquisition fails (an acquisition settles
\* and no stream appears) raises one "Camera Error" toast, changes no cell
\* of the session and starts no new acquisition; an Idle mounted session is
\* still Idle with timeLeft 300, no recorder, no interval, and the start
\* button still rendered.
C9_AcquireFailureKeepsIdle ==
    [][(Cardinality(acquiring') < Cardinality(acquiring) /\ streams' = streams) =>
          /\ toasts' = toast("Camera Error")
          /\ UNCHANGED <<readState, readRefs, starts, recorders, timers, numChunks>>
          /\ acquiring' \subseteq acquiring
          /\ (ReadingMounted /\ Idle) =>
                /\ Idle'
                /\ timeLeft' = TotalTime
                /\ mediaRecorderRef' = 0
                /\ timerRef' = 0
                /\ timers' = {}
                /\ \A r \in 1..MaxStarts : recorders'[r] # "recording"
                /\ StartAvailable']_vars

C9_Witness ==
    /\ ReadingMounted
    /\ starts = 1
    /\ acquiring = {}
    /\ streams = {}
    /\ toasts["Camera Error"] = 1
    /\ Idle
    /\ timeLeft = TotalTime
    /\ mediaRecorderRef = 0

\* C10 as stated: once the view is torn down and nothing is in flight any
\* more (no acquisition pending, no recorder's stop task outstanding), no
\* interval is active and no capture stream is live.  Streams whose recorder
\* was never started are set aside: only streams a recorder was started on
\* are counted.
C10_Original ==
    (~ReadingMounted /\ acquiring = {}
       /\ \A r \in 1..MaxStarts : recorders[r] \notin {"stopping", "inactive"}
       /\ \A i \in streams : recorders[i] # "none")
        => (timers = {} /\ streams = {})

\* the chunks delivered so far that recorder r produced, in arrival order
RECURSIVE chunksOf(_, _)
chunksOf(r, n) ==
    IF n = 0 THEN <<>>
    ELSE chunksOf(r, n - 1) \o <<<<r, n>>>>

\* C11 as stated: in a mounted view, whenever an artifact is produced it is
\* made of exactly the chunks delivered since the start, in arrival order,
\* and then no capture stream of a started recorder is live and no interval
\* is active; once the artifact exists timeLeft and the chunk buffer never
\* change again.
C11_Original ==
    [][(ReadingMounted /\ ReadingMounted') =>
          /\ recordedBlob' # recordedBlob =>
                /\ \E r \in 1..MaxStarts : recordedBlob' = Blob(chunksOf(r, numChunks'))
                /\ \A i \in streams' : recorders'[i] \in {"none", "inactive"}
                /\ timers' = {}
          /\ recordedBlob # NoBlob =>
                timeLeft' = timeLeft /\ chunksRef' = chunksRef]_vars

\* C12 as stated: at most one recorder is recording, at most one interval is
\* active, and all chunks in the buffer come from one recorder.
C12_Original ==
    /\ Cardinality({r \in 1..MaxStarts : recorders[r] = "recording"}) <= 1
    /\ Cardinality(timers) <= 1
    /\ \A j, k \in 1..Len(chunksRef) : chunksRef[j][1] = chunksRef[k][1]

\* C13 as stated: the duration of every insert issued by handleContinue is
\* 300 - timeLeft at that moment, is the number of interval callbacks that
\* ran while the session was Recording, and lies in 0..300.
C13_Original ==
    [][Len(videoInserts') > Len(videoInserts) =>
          LET duration == videoInserts'[Len(videoInserts')].duration
          IN  /\ duration = TotalTime - timeLeft
              /\ duration = recTicks
              /\ duration \in 0..TotalTime]_vars

----------------------------------------------------------------------------
(* Result view claims *)

\* a video type: the part of the MIME type before its first "/" is "video"
isVideoType(type) ==
    \E k \in 1..Len(type) :
        /\ type[k] = "/"
        /\ \A j \in 1..(k - 1) : type[j] # "/"
        /\ SubSeq(type, 1, k - 1) = <<"v", "i", "d", "e", "o">>

\* C14: a file whose type is not a video type is rejected with a notification:
\* the uploaded file is only ever a file of a video type, the step that raises
\* "Invalid File" leaves the uploaded file, isAnalyzing, the result and the
\* analyses as they were, and no analysis has a rejected file as its source.
C14_InvalidUploadRejected ==
    [][/\ uploadedFile' # uploadedFile =>
             /\ isVideoType(fileType(uploadedFile'))
             /\ toasts' = toasts
       /\ toasts'["Invalid File"] > toasts["Invalid File"] =>
             /\ toasts'["Invalid File"] = toasts["Invalid File"] + 1
             /\ UNCHANGED <<uploadedFile, isAnalyzing, result, analyses>>
       /\ \A i \in 1..Len(analyses') :
             analyses'[i].source = "upload" => isVideoType(fileType(analyses'[i].file))
      ]_vars

\* a clip is selected and a file of another type has been rejected
C14_Witness ==
    /\ PredictionMounted
    /\ uploadedFile = "clip.mp4"
    /\ toasts["Invalid File"] = 1
    /\ analyses = <<>>

\* C15: every analysis has exactly one source, the uploaded file or the
\* carried-over recording, and that source is present; while neither is
\* present the analyze action is blocked: the handler never runs (no analysis,
\* no "No Video" toast), isAnalyzing is false and there is no result.
C15_AnalyzeNeedsSource ==
    /\ \A i \in 1..Len(analyses) :
          \/ analyses[i].source = "upload" /\ uploadedFile # NoFile
                /\ analyses[i].file \in Files
          \/ analyses[i].source = "recording" /\ videoBlob # NoBlob
                /\ analyses[i].file = "recording.webm"
    /\ (uploadedFile = NoFile /\ videoBlob = NoBlob) =>
          /\ analyses = <<>>
          /\ toasts["No Video"] = 0
          /\ ~isAnalyzing
          /\ result = NoResult

\* neither source is present, after an upload that was rejected
C15_Witness ==
    /\ PredictionMounted
    /\ uploadedFile = NoFile
    /\ videoBlob = NoBlob
    /\ toasts["Invalid File"] = MaxToasts

----------------------------------------------------------------------------
(* Navigation claims *)

\* the position of a view in the order questionnaire, story selection,
\* recording, result
stepOf(r) ==
    CASE r = "/dashboard" -> 1
      [] r = "/stories" -> 2
      [] r = "/reading" -> 3
      [] r = "/prediction" -> 4

\* C16 as stated: every navigation the views perform goes from one step to
\* the next step in the order, never backwards and never skipping a step.
C16_Original ==
    [][route' # route => stepOf(route') = stepOf(route) + 1]_vars

\* C16: every navigation the views perform goes from one step to the next
\* step in the order (into the recording view with a story, into the result
\* view with the artifact), except that the recording view mounted without a
\* story goes back to story selection and that "Return to Dashboard" of the
\* result view, shown once there is a result, goes back to the questionnaire.
C16_NavigationOrder ==
    [][route' # route =>
          \/ /\ stepOf(route') = stepOf(route) + 1
             /\ route' = "/reading" => story' # NoStory
             /\ route' = "/prediction" => videoBlob' # NoBlob
          \/ /\ route = "/reading" /\ route' = "/stories"
             /\ story = NoStory
          \/ /\ route = "/prediction" /\ route' = "/dashboard"
             /\ result # NoResult
      ]_vars

\* a session that went through the four views in order and returned
C16_Witness ==
    /\ route = "/dashboard"
    /\ showScore
    /\ story # NoStory
    /\ videoBlob # NoBlob
    /\ result # NoResult

----------------------------------------------------------------------------
(* Session liveness *)

\* C17: under fair scheduling of the countdown and of the recorder callbacks,
\* a mounted session that is Recording eventually is Stopped with an artifact
\* available, unless the user leaves the view (which ends the session).
C17_RecordingEndsStopped ==
    (ReadingMounted /\ Recording) ~>
        (~ReadingMounted \/ (Stopped /\ recordedBlob # NoBlob))

\* the countdown reached zero and stopped the recording, no click on "Stop
\* Recording", and the artifact is there
C17_Witness ==
    /\ ReadingMounted
    /\ Stopped
    /\ recordedBlob # NoBlob
    /\ timeLeft = 0
    /\ stopClicks = 0

----------------------------------------------------------------------------
(* Forwarding claims *)

\* C18: the continue action navigates to the result view only in the step in
\* which its insert succeeded, carrying the artifact of that insert; an insert
\* is issued only with an artifact, and carries it; when the insert fails
\* there is one "Error" toast, no navigation, and the artifact and the
\* remaining time are as before, so that "Continue to Prediction" is still
\* offered.
C18_ContinueForwardsOnSuccess ==
    [][/\ (route' = "/prediction" /\ route # "/prediction") =>
             \E i \in 1..Len(videoInserts) :
                 /\ videoInserts[i].status = "pending"
                 /\ videoInserts'[i].status = "ok"
                 /\ videoBlob' = videoInserts[i].blob
                 /\ videoBlob' # NoBlob
       /\ Len(videoInserts') > Len(videoInserts) =>
             /\ recordedBlob # NoBlob
             /\ videoInserts'[Len(videoInserts')].blob = recordedBlob
             /\ UNCHANGED <<route, toasts, recordedBlob, timeLeft>>
       /\ recordedBlob' = NoBlob =>
             videoInserts' = <<>> /\ toasts'["No Recording"] = 0
       /\ \A i \in 1..Len(videoInserts) :
             (videoInserts[i].status = "pending" /\ videoInserts'[i].status = "error") =>
                 /\ toasts'["Error"] = toasts["Error"] + 1
                 /\ UNCHANGED <<route, videoBlob, recordedBlob, timeLeft>>
                 /\ ReadingMounted => ContinueAvailable'
      ]_vars

\* an insert failed: the view is still mounted with its artifact
C18_Witness ==
    /\ ReadingMounted
    /\ recordedBlob # NoBlob
    /\ videoInserts # <<>>
    /\ videoInserts[1].status = "error"
    /\ toasts["Error"] = 1
    /\ videoBlob = NoBlob

----------------------------------------------------------------------------
(* Questionnaire: the insert *)

\* C19: one Dashboard instance issues at most one score insert; the insert
\* carries the score that is displayed and the answers held when it was
\* calculated; once the score is shown, the score and the insert's payload
\* never change again, whatever is answered afterwards.
C19_OneInsertNeverRecomputed ==
    [][/\ Len(osdiInserts') <= 1
       /\ Len(osdiInserts') > Len(osdiInserts) =>
             /\ ~showScore /\ showScore'
             /\ osdiInserts'[Len(osdiInserts')].score = osdiScore'
             /\ osdiInserts'[Len(osdiInserts')].answers = answers
       /\ showScore =>
             /\ showScore'
             /\ osdiScore' = osdiScore
             /\ Len(osdiInserts') = Len(osdiInserts)
             /\ \A i \in 1..Len(osdiInserts) :
                   /\ osdiInserts'[i].score = osdiInserts[i].score
                   /\ osdiInserts'[i].answers = osdiInserts[i].answers
      ]_vars

\* the answers were changed after the calculation: the displayed score is
\* still the one the insert carries
C19_Witness ==
    /\ DashboardMounted
    /\ showScore
    /\ Len(osdiInserts) = 1
    /\ answers # osdiInserts[1].answers
    /\ osdiScore = osdiInserts[1].score
    /\ osdiInserts[1].status = "ok"

----------------------------------------------------------------------------
(* Recording: failure after the stream was acquired *)

\* C20 as stated: when startRecording fails ("Camera Error"), also after the
\* camera stream was acquired, the session state is as it was before the
\* attempt (Idle for a first attempt) and no stream opened by the attempt
\* remains: its tracks are stopped and the preview does not hold it.
C20_Original ==
    [][toasts'["Camera Error"] > toasts["Camera Error"] =>
          /\ UNCHANGED <<hasStarted, isRecording>>
          /\ streams' \subseteq streams
          /\ videoSrc' \notin (streams' \ streams)]_vars

====
